---- MODULE Spec2Model ----
(***************************************************************************)
(* A model of the faster-whisper skill: the transcription command line     *)
(* (scripts/transcribe.py), the environment manager                         *)
(* (scripts/setup_environment.py) and the installer (install.py).           *)
(*                                                                         *)
(* The three scripts are independent programs, so each has a state         *)
(* variable of its own and specifications of its own; a specification      *)
(* leaves the other programs' variables at Idle.                           *)
(*                                                                         *)
(* Conventions.  A Python string whose characters matter is a sequence of  *)
(* one-character strings.  An Optional value is a sequence of length at    *)
(* most one: << >> is None and << v >> is the value v.  A duration in      *)
(* seconds is a non-negative number of ticks, TicksPerSecond ticks to the  *)
(* second; TicksPerSecond is a power of two, so every duration of the      *)
(* model is a float the interpreter represents exactly and the float       *)
(* operations the code applies to it (//, %, *1000) are exact.             *)
(***************************************************************************)
EXTENDS Integers, Sequences, FiniteSets, TLC

VARIABLES cli, env, inst, fmt

vars == << cli, env, inst, fmt >>

\* The value of the variable of a program the specification does not run.
Idle == [pc |-> "idle"]

-----------------------------------------------------------------------------
(* Optional values and characters *)

None == << >>

Some(v) == << v >>

IsNone(o) == Len(o) = 0

Digits == << "0", "1", "2", "3", "4", "5", "6", "7", "8", "9" >>

NL == "\n"

\* str(n) for n >= 0
RECURSIVE Dec(_)
Dec(n) == IF n < 10 THEN << Digits[n + 1] >>
          ELSE Dec(n \div 10) \o << Digits[(n % 10) + 1] >>

\* the zero padding of the format specs 02d, 03d and 06.3f
RECURSIVE ZeroPad(_, _)
ZeroPad(s, width) == IF Len(s) >= width THEN s ELSE ZeroPad(<< "0" >> \o s, width)

\* "\n".join(lines)
RECURSIVE Join(_)
Join(lines) == IF Len(lines) = 0 THEN << >>
               ELSE IF Len(lines) = 1 THEN lines[1]
               ELSE lines[1] \o << NL >> \o Join(Tail(lines))

-----------------------------------------------------------------------------
(* Durations *)

TickBits == 11

TicksPerSecond == 2 ^ TickBits

MaxHours == 1

MinuteSamples == { 0, 2, 59 }

SecondSamples == { 0, 5, 59 }

Ticks(h, m, s, f) == ((h * 60 + m) * 60 + s) * TicksPerSecond + f

Durations == { Ticks(h, m, s, f) : h \in 0 .. MaxHours, m \in MinuteSamples,
                                   s \in SecondSamples, f \in 0 .. TicksPerSecond - 1 }

\* int(seconds // 3600)
Hours(t) == t \div (3600 * TicksPerSecond)

\* int((seconds % 3600) // 60)
Minutes(t) == (t % (3600 * TicksPerSecond)) \div (60 * TicksPerSecond)

\* num / den rounded to the nearest integer, a tie to the even one: the
\* rounding of a float format spec such as .3f
RoundHalfEven(num, den) ==
    LET q == num \div den
        r == num % den
    IN  IF 2 * r < den THEN q
        ELSE IF 2 * r > den THEN q + 1
        ELSE IF q % 2 = 0 THEN q ELSE q + 1

\* secs = seconds % 60 as the format spec 06.3f prints it, in milliseconds
SecsRounded(t) == RoundHalfEven((t % (60 * TicksPerSecond)) * 1000, TicksPerSecond)

\* f"{secs:06.3f}"
FormatSecs(ms) == ZeroPad(Dec(ms \div 1000) \o << "." >> \o ZeroPad(Dec(ms % 1000), 3), 6)

\* secs = int(seconds % 60)
SecsSrt(t) == (t % (60 * TicksPerSecond)) \div TicksPerSecond

\* millis = int((seconds % 1) * 1000)
MillisSrt(t) == ((t % TicksPerSecond) * 1000) \div TicksPerSecond

format_timestamp(t) ==
    ZeroPad(Dec(Hours(t)), 2) \o << ":" >> \o ZeroPad(Dec(Minutes(t)), 2) \o << ":" >>
        \o FormatSecs(SecsRounded(t))

format_timestamp_srt(t) ==
    ZeroPad(Dec(Hours(t)), 2) \o << ":" >> \o ZeroPad(Dec(Minutes(t)), 2) \o << ":" >>
        \o ZeroPad(Dec(SecsSrt(t)), 2) \o << "," >> \o ZeroPad(Dec(MillisSrt(t)), 3)

(* The two formatters applied to one duration. *)

InitTs == /\ fmt \in { [pc |-> "timestamp", seconds |-> t, text |-> None, srt |-> None] :
                         t \in Durations }
          /\ cli = Idle
          /\ env = Idle
          /\ inst = Idle

CallFormatTimestamp ==
    /\ fmt.pc = "timestamp"
    /\ IsNone(fmt.text)
    /\ fmt' = [fmt EXCEPT !.text = Some(format_timestamp(fmt.seconds))]
    /\ UNCHANGED << cli, env, inst >>

CallFormatTimestampSrt ==
    /\ fmt.pc = "timestamp"
    /\ IsNone(fmt.srt)
    /\ fmt' = [fmt EXCEPT !.srt = Some(format_timestamp_srt(fmt.seconds))]
    /\ UNCHANGED << cli, env, inst >>

NextTs == CallFormatTimestamp \/ CallFormatTimestampSrt

SpecTs == InitTs /\ [][NextTs]_vars

-----------------------------------------------------------------------------
(* The transcription result and the formatters *)

MaxSegments == 3

\* The characters str.strip() removes: those str.isspace() holds of.  TAB,
\* LF, CR and FF are written with their escapes; VT, FS, GS, RS, US, NEL,
\* NBSP and U+1680 stand in their strings as they are; a string literal
\* cannot hold the spaces from U+2000 on, which are written by code point.
Whitespace ==
    { " ", "\t", NL, "\r", "\f" }
    \cup { "", "", "", "", "", "", " ", " " }
    \cup { "U+2000", "U+2001", "U+2002", "U+2003", "U+2004", "U+2005", "U+2006", "U+2007",
           "U+2008", "U+2009", "U+200A", "U+2028", "U+2029", "U+202F", "U+205F", "U+3000" }

\* str.strip()
RECURSIVE LStrip(_)
LStrip(s) == IF Len(s) > 0 /\ s[1] \in Whitespace THEN LStrip(Tail(s)) ELSE s

RECURSIVE RStrip(_)
RStrip(s) == IF Len(s) > 0 /\ s[Len(s)] \in Whitespace
             THEN RStrip(SubSeq(s, 1, Len(s) - 1)) ELSE s

Strip(s) == RStrip(LStrip(s))

\* What the library hands back per segment.  Its words attribute is: no
\* attribute (None), an attribute holding None (Some(None)) or an attribute
\* holding a list (Some(Some(list))).
LibWord(n) == [start |-> n, end |-> n + 1, word |-> << "w" >>, probability |-> TicksPerSecond - n]

LibWordLists == { None, Some(None), Some(Some(<< >>)), Some(Some(<< LibWord(1), LibWord(2) >>)) }

LibTexts == { << >>, << " ", "\t", "h", "i", " ", "U+3000", "\r", NL >> }

LibTimes == { << 0, TicksPerSecond + TicksPerSecond \div 2 >>,
              << Ticks(1, 2, 5, TicksPerSecond \div 2), Ticks(1, 2, 7, TicksPerSecond - 1) >> }

LibSegments == { [start |-> p[1], end |-> p[2], text |-> x, words |-> w] :
                   p \in LibTimes, x \in LibTexts, w \in LibWordLists }

RECURSIVE SeqsUpTo(_, _)
SeqsUpTo(S, n) == IF n = 0 THEN { << >> }
                  ELSE LET shorter == SeqsUpTo(S, n - 1)
                       IN  shorter \cup { Append(q, x) : q \in { r \in shorter : Len(r) = n - 1 }, x \in S }

LibInfo == [language |-> << "e", "n" >>, language_probability |-> TicksPerSecond - 1,
            duration |-> Ticks(1, 2, 8, 0)]

\* hasattr(seg, 'words') and seg.words
HasWords(seg) == /\ ~IsNone(seg.words)
                 /\ ~IsNone(seg.words[1])
                 /\ Len(seg.words[1][1]) > 0

WordDict(w) == [start |-> w.start, end |-> w.end, word |-> w.word, probability |-> w.probability]

\* the words kept whether or not word timestamps were asked for
SegmentWords_Unasked(word_timestamps, seg) ==
    IF HasWords(seg)
    THEN Some([i \in 1 .. Len(seg.words[1][1]) |-> WordDict(seg.words[1][1][i])])
    ELSE None

\* the words of one Segment of the result
SegmentWords(word_timestamps, seg) ==
    IF word_timestamps /\ HasWords(seg)
    THEN Some([i \in 1 .. Len(seg.words[1][1]) |-> WordDict(seg.words[1][1][i])])
    ELSE None

\* the result transcribe() builds from what the library returned
BuildResult(config, segments, info) ==
    [language |-> info.language,
     language_probability |-> info.language_probability,
     duration |-> info.duration,
     segments |-> [i \in 1 .. Len(segments) |->
                     [start |-> segments[i].start,
                      end |-> segments[i].end,
                      text |-> Strip(segments[i].text),
                      words |-> SegmentWords(config.word_timestamps, segments[i])]]]

\* f"{x:.<places>f}" of a duration
RECURSIVE Pow10(_)
Pow10(n) == IF n = 0 THEN 1 ELSE 10 * Pow10(n - 1)

Fixed(t, places) ==
    LET scaled == RoundHalfEven(t * Pow10(places), TicksPerSecond)
    IN  Dec(scaled \div Pow10(places)) \o << "." >> \o ZeroPad(Dec(scaled % Pow10(places)), places)

Chars_Transcription == << "#", " ", "T", "r", "a", "n", "s", "c", "r", "i", "p", "t", "i", "o", "n" >>

Chars_Language == << "#", " ", "L", "a", "n", "g", "u", "a", "g", "e", ":", " " >>

Chars_Confidence == << " ", "(", "c", "o", "n", "f", "i", "d", "e", "n", "c", "e", ":", " " >>

Chars_Duration == << "#", " ", "D", "u", "r", "a", "t", "i", "o", "n", ":", " " >>

Chars_Seconds == << " ", "s", "e", "c", "o", "n", "d", "s" >>

Chars_Generated == << "#", " ", "G", "e", "n", "e", "r", "a", "t", "e", "d", ":", " " >>

Chars_Arrow == << " ", "-", "-", ">", " " >>

\* the readings of datetime.now().strftime(...) the model draws from
Clock == { << "2", "0", "2", "4", "-", "0", "1", "-", "0", "1", " ", "0", "0", ":", "0", "0", ":", "0", "0" >> }

format_text(result, now) ==
    Join(<< Chars_Transcription,
            Chars_Language \o result.language \o Chars_Confidence
                \o Fixed(result.language_probability * 100, 2) \o << "%", ")" >>,
            Chars_Duration \o Fixed(result.duration, 1) \o Chars_Seconds,
            Chars_Generated \o now,
            << >> >>
         \o [i \in 1 .. Len(result.segments) |->
               << "[" >> \o Fixed(result.segments[i].start, 2) \o << "s", " ", "-", ">", " " >>
                   \o Fixed(result.segments[i].end, 2) \o << "s", "]", " " >>
                   \o result.segments[i].text])

\* the cue numbered as enumerate() would number it without its start
SrtCue_FromZero(i, seg) ==
    << Dec(i - 1),
       format_timestamp_srt(seg.start) \o Chars_Arrow \o format_timestamp_srt(seg.end),
       seg.text,
       << >> >>

\* the lines one segment adds, i counted from 1
SrtCue(i, seg) ==
    << Dec(i),
       format_timestamp_srt(seg.start) \o Chars_Arrow \o format_timestamp_srt(seg.end),
       seg.text,
       << >> >>

RECURSIVE SrtLines(_, _)
SrtLines(segments, i) ==
    IF i > Len(segments) THEN << >>
    ELSE SrtCue(i, segments[i]) \o SrtLines(segments, i + 1)

format_srt(result) == Join(SrtLines(result.segments, 1))

\* one entry of data["segments"]: "words" is a key only when it is set
JsonSegment(seg, full) ==
    LET base == [start |-> seg.start, end |-> seg.end, text |-> seg.text]
    IN  IF full /\ ~IsNone(seg.words) /\ Len(seg.words[1]) > 0
        THEN base @@ ("words" :> seg.words[1])
        ELSE base

\* the object format_json hands to json.dumps
format_json(result, full) ==
    [language |-> result.language,
     language_probability |-> result.language_probability,
     duration |-> result.duration,
     segments |-> [i \in 1 .. Len(result.segments) |-> JsonSegment(result.segments[i], full)]]

Formats == { "text", "srt", "json", "json_full" }

\* the formatter main chooses for args.format
Render(format, result, now) ==
    IF format = "text" THEN format_text(result, now)
    ELSE IF format = "srt" THEN format_srt(result)
    ELSE IF format = "json" THEN format_json(result, FALSE)
    ELSE IF format = "json_full" THEN format_json(result, TRUE)
    ELSE format_text(result, now)

(* transcribe's result building and one formatter applied to it. *)

InitFormat ==
    /\ fmt \in { [pc |-> "library", word_timestamps |-> wt, segments |-> segs,
                  result |-> None, format |-> None, out |-> None] :
                   wt \in BOOLEAN, segs \in SeqsUpTo(LibSegments, MaxSegments) }
    /\ cli = Idle
    /\ env = Idle
    /\ inst = Idle

CallBuildResult ==
    /\ fmt.pc = "library"
    /\ fmt' = [fmt EXCEPT !.pc = "result",
                          !.result = Some(BuildResult([word_timestamps |-> fmt.word_timestamps],
                                                      fmt.segments, LibInfo))]
    /\ UNCHANGED << cli, env, inst >>

CallFormat ==
    /\ fmt.pc = "result"
    /\ \E f \in Formats, now \in Clock :
          fmt' = [fmt EXCEPT !.pc = "formatted",
                             !.format = Some(f),
                             !.out = Some(Render(f, fmt.result[1], now))]
    /\ UNCHANGED << cli, env, inst >>

NextFormat == CallBuildResult \/ CallFormat

SpecFormat == InitFormat /\ [][NextFormat]_vars

-----------------------------------------------------------------------------
(* The configuration of the transcription command line *)

\* TranscriptionConfig(): the hardcoded defaults
DefaultConfig ==
    [model_size |-> "large-v3", device |-> "cpu", compute_type |-> "int8", language |-> None,
     task |-> "transcribe", beam_size |-> 5, vad_filter |-> FALSE, vad_parameters |-> None,
     word_timestamps |-> FALSE]

\* data.get(key, default): data[key] is None when the file has no such key
Get(data, key, default) == IF IsNone(data[key]) THEN default ELSE data[key][1]

\* TranscriptionConfig.from_file.  A configuration file is missing, is not
\* JSON (json.load raises) or holds an object, some of the keys present.
from_file(file) ==
    IF file.state = "missing" THEN [raised |-> FALSE, config |-> DefaultConfig]
    ELSE IF file.state = "malformed" THEN [raised |-> TRUE, config |-> DefaultConfig]
    ELSE [raised |-> FALSE,
          config |-> [model_size |-> Get(file.data, "model_size", "large-v3"),
                      device |-> Get(file.data, "device", "cpu"),
                      compute_type |-> Get(file.data, "compute_type", "int8"),
                      language |-> Get(file.data, "language", None),
                      task |-> Get(file.data, "task", "transcribe"),
                      beam_size |-> Get(file.data, "beam_size", 5),
                      vad_filter |-> Get(file.data, "vad_filter", FALSE),
                      vad_parameters |-> Get(file.data, "vad_parameters", None),
                      word_timestamps |-> Get(file.data, "word_timestamps", FALSE)]]

\* `if args.x:` for an Optional string
Truthy(o) == ~IsNone(o) /\ o[1] # ""

\* the overrides of main, one `if` per flag
ApplyOverrides(config, args) ==
    [config EXCEPT
       !.model_size = IF Truthy(args.model) THEN args.model[1] ELSE @,
       !.device = IF Truthy(args.device) THEN args.device[1] ELSE @,
       !.compute_type = IF Truthy(args.compute_type) THEN args.compute_type[1] ELSE @,
       !.language = IF Truthy(args.language) THEN Some(args.language[1]) ELSE @,
       !.task = IF Truthy(args.task) THEN args.task[1] ELSE @,
       !.beam_size = IF ~IsNone(args.beam_size) THEN args.beam_size[1] ELSE @,
       !.vad_filter = IF ~IsNone(args.vad_filter) THEN args.vad_filter[1] ELSE @,
       !.word_timestamps = IF ~IsNone(args.word_timestamps) THEN args.word_timestamps[1] ELSE @]

\* the keyword arguments transcribe() passes to model.transcribe
TranscribeCall(config) ==
    [language |-> IF config.language = Some("auto") THEN None ELSE config.language,
     task |-> config.task,
     beam_size |-> config.beam_size,
     vad_filter |-> config.vad_filter,
     vad_parameters |-> IF config.vad_filter THEN config.vad_parameters ELSE None,
     word_timestamps |-> config.word_timestamps]

-----------------------------------------------------------------------------
(* argparse: the arguments main declares *)

PrefixChars == { "-" }

\* the add_argument calls of main, in order: the names each is given and
\* whether it is given dest=
AddArgumentCalls ==
    <<
       [names |-> << << "a", "u", "d", "i", "o", "_", "f", "i", "l", "e" >> >>, dest |-> FALSE],
       [names |-> << << "-", "-", "c", "o", "n", "f", "i", "g" >> >>, dest |-> FALSE],
       [names |-> << << "-", "-", "m", "o", "d", "e", "l" >> >>, dest |-> FALSE],
       [names |-> << << "-", "-", "d", "e", "v", "i", "c", "e" >> >>, dest |-> FALSE],
       [names |-> << << "-", "-", "c", "o", "m", "p", "u", "t", "e", "-", "t", "y", "p", "e" >> >>, dest |-> TRUE],
       [names |-> << << "-", "-", "l", "a", "n", "g", "u", "a", "g", "e" >> >>, dest |-> FALSE],
       [names |-> << << "-", "-", "t", "a", "s", "k" >> >>, dest |-> FALSE],
       [names |-> << << "-", "-", "b", "e", "a", "m", "-", "s", "i", "z", "e" >> >>, dest |-> TRUE],
       [names |-> << << "-", "-", "v", "a", "d", "-", "f", "i", "l", "t", "e", "r" >> >>, dest |-> FALSE],
       [names |-> << << "-", "-", "w", "o", "r", "d", "-", "t", "i", "m", "e", "s", "t", "a", "m", "p", "s" >> >>, dest |-> FALSE],
       [names |-> << << "-", "-", "o", "u", "t", "p", "u", "t" >>, << "-", "o" >> >>, dest |-> FALSE],
       [names |-> << << "-", "-", "f", "o", "r", "m", "a", "t" >>, << "f", "m", "t" >> >>, dest |-> FALSE],
       [names |-> << << "-", "-", "v", "e", "r", "b", "o", "s", "e" >>, << "-", "v" >> >>, dest |-> FALSE]
    >>

\* ArgumentParser.add_argument: one name that does not start with a prefix
\* character declares a positional, which takes no dest=; otherwise every
\* name must start with a prefix character.  FALSE: it raises ValueError.
AddArgumentAccepts(call) ==
    IF Len(call.names) = 1 /\ call.names[1][1] \notin PrefixChars
    THEN ~call.dest
    ELSE \A i \in 1 .. Len(call.names) : call.names[i][1] \in PrefixChars

ParserBuilds == \A i \in 1 .. Len(AddArgumentCalls) : AddArgumentAccepts(AddArgumentCalls[i])

\* the exit status of the interpreter when main raises
UncaughtExceptionStatus == 1

-----------------------------------------------------------------------------
(* The transcription command line: main *)

ConfigKeys == { "model_size", "device", "compute_type", "language", "task", "beam_size",
                "vad_filter", "vad_parameters", "word_timestamps" }

\* a configuration object with no key
NoKeys == [k \in ConfigKeys |-> None]

MissingFile == [state |-> "missing", data |-> NoKeys]

MalformedFile == [state |-> "malformed", data |-> NoKeys]

ObjectFile(data) == [state |-> "ok", data |-> data]

\* args as parse_args returns it with none of the optional flags given
NoFlags == [model |-> None, device |-> None, compute_type |-> None, language |-> None,
            task |-> None, beam_size |-> None, vad_filter |-> None, word_timestamps |-> None,
            output |-> None, format |-> "text", verbose |-> FALSE]

\* The inputs of a run of main: files and flags that make every branch of
\* main happen.
BodyFiles == { MissingFile, MalformedFile, ObjectFile(NoKeys),
               ObjectFile([NoKeys EXCEPT !["word_timestamps"] = Some(TRUE)]),
               ObjectFile([NoKeys EXCEPT !["language"] = Some(Some("zh")),
                                         !["model_size"] = Some("small")]) }

BodyArgs == { [NoFlags EXCEPT !.format = f, !.output = o, !.word_timestamps = wt,
                              !.language = l, !.verbose = v] :
                f \in Formats, o \in { None, Some(""), Some("out.txt") },
                wt \in { None, Some(TRUE) }, l \in { None, Some("auto") }, v \in BOOLEAN }

\* What the library does in a run: WhisperModel(...) raises, or the
\* transcription raises, or it returns these segments.
LibOutcomes ==
    { [outcome |-> "load_raises", segments |-> << >>],
      [outcome |-> "transcribe_raises", segments |-> << >>] }
    \cup { [outcome |-> "ok", segments |-> segs] :
             segs \in { << >> } \cup { << s >> : s \in { x \in LibSegments : x.start = 0 } } }

\* What the path of --output is before the run: nothing, a regular file, a
\* directory, or a path whose parent is a regular file.
OutPaths == { "absent", "file", "dir", "under_file" }

CliInputs == { [audio_exists |-> a, file |-> f, args |-> g, lib |-> l, out_path |-> e] :
                 a \in BOOLEAN, f \in BodyFiles, g \in BodyArgs, l \in LibOutcomes,
                 e \in OutPaths }

\* the state of a run at program point pc, nothing done yet
CliStart(pc, in) ==
    [pc |-> pc, audio_exists |-> in.audio_exists, file |-> in.file, args |-> in.args,
     lib |-> in.lib,
     config |-> None, model_loaded |-> FALSE, lib_call |-> None, result |-> None,
     output |-> None, stdout |-> << >>, traceback |-> FALSE,
     out_path |-> in.out_path,
     out_file |-> [kind |-> in.out_path, content |-> None], save_calls |-> 0,
     exit_code |-> None]

Printed(kind, body) == [kind |-> kind, body |-> body]

Exit(c, status) == [c EXCEPT !.pc = "exited", !.exit_code = Some(status)]

\* an exception nothing catches: the interpreter prints the traceback and exits
Uncaught(c) == Exit([c EXCEPT !.traceback = TRUE], UncaughtExceptionStatus)

\* the parser is declared; add_argument may raise
BuildParser ==
    /\ cli.pc = "build_parser"
    /\ cli' = IF ParserBuilds THEN [cli EXCEPT !.pc = "check_audio"] ELSE Uncaught(cli)
    /\ UNCHANGED << env, inst, fmt >>

\* the check of the audio file left out
AudioMissing_Unchecked(c) == FALSE

\* `if not os.path.exists(args.audio_file)`
AudioMissing(c) == ~c.audio_exists

CheckAudio ==
    /\ cli.pc = "check_audio"
    /\ cli' = IF AudioMissing(cli)
              THEN Exit([cli EXCEPT !.stdout = Append(@, Printed("audio_not_found", None))], 1)
              ELSE [cli EXCEPT !.pc = "load_config"]
    /\ UNCHANGED << env, inst, fmt >>

LoadConfig ==
    /\ cli.pc = "load_config"
    /\ LET loaded == from_file(cli.file)
       IN  cli' = IF loaded.raised THEN Uncaught(cli)
                  ELSE [cli EXCEPT !.pc = "override", !.config = Some(loaded.config)]
    /\ UNCHANGED << env, inst, fmt >>

Override ==
    /\ cli.pc = "override"
    /\ cli' = [cli EXCEPT !.pc = "transcribe",
                          !.config = Some(ApplyOverrides(cli.config[1], cli.args))]
    /\ UNCHANGED << env, inst, fmt >>

\* the lines transcribe() prints under --verbose before it loads the model
\* and before it calls the library
Progress(c, what) == IF c.args.verbose THEN Append(c.stdout, Printed(what, None)) ELSE c.stdout

\* `except Exception` around transcribe()
TranscriptionFailed(c) ==
    Exit([c EXCEPT !.stdout = Append(@, Printed("transcription_error", None))], 1)

\* the try block of main: transcribe() loads the model, calls the library
\* and builds the result, and any exception of it ends the run
Transcribe ==
    /\ cli.pc = "transcribe"
    /\ LET started == [cli EXCEPT !.stdout = Progress(cli, "loading_model")]
           loaded == [started EXCEPT !.model_loaded = TRUE,
                                     !.stdout = Progress(started, "transcribing"),
                                     !.lib_call = Some(TranscribeCall(cli.config[1]))]
       IN  cli' = IF cli.lib.outcome = "load_raises" THEN TranscriptionFailed(started)
                  ELSE IF cli.lib.outcome = "transcribe_raises" THEN TranscriptionFailed(loaded)
                  ELSE [loaded EXCEPT !.pc = "format",
                                      !.result = Some(BuildResult(cli.config[1], cli.lib.segments,
                                                                  LibInfo))]
    /\ UNCHANGED << env, inst, fmt >>

Format ==
    /\ cli.pc = "format"
    /\ \E now \in Clock :
          cli' = [cli EXCEPT !.pc = "output",
                             !.output = Some(Render(cli.args.format, cli.result[1], now))]
    /\ UNCHANGED << env, inst, fmt >>

\* save_output: output_path.parent.mkdir(parents=True, exist_ok=True) raises
\* FileExistsError when the parent is a regular file and open(.., "w")
\* raises IsADirectoryError when the path is a directory; nothing catches
\* either.  Otherwise the file is written and "Saved to" is printed, and
\* main returns.
save_output(c, content) ==
    LET called == [c EXCEPT !.save_calls = @ + 1]
    IN  IF c.out_file.kind \in { "under_file", "dir" } THEN Uncaught(called)
        ELSE Exit([called EXCEPT !.out_file = [kind |-> "file", content |-> Some(content)],
                                 !.stdout = Append(@, Printed("saved_to", None))], 0)

\* `if args.output:` and the return of main
Output ==
    /\ cli.pc = "output"
    /\ cli' = IF Truthy(cli.args.output) THEN save_output(cli, cli.output[1])
              ELSE Exit([cli EXCEPT !.stdout = Append(@, Printed("output", cli.output))], 0)
    /\ UNCHANGED << env, inst, fmt >>

MainNext == BuildParser \/ CheckAudio \/ LoadConfig \/ Override \/ Transcribe \/ Format \/ Output

(* main from its first line.  ParserBuilds is FALSE for the arguments main *)
(* declares, so BuildParser is the only step of MainNext a run takes.       *)

Init == /\ cli \in { CliStart("build_parser", in) : in \in CliInputs }
        /\ env = Idle
        /\ inst = Idle
        /\ fmt = Idle

Spec == Init /\ [][BuildParser]_vars

(* main from its first line together with the body of main taken as a     *)
(* unit, from the line after parse_args: the steps that follow a parser     *)
(* that was built.                                                          *)

InitCli == /\ cli \in { CliStart(pc, in) : pc \in { "build_parser", "check_audio" },
                                           in \in CliInputs }
           /\ env = Idle
           /\ inst = Idle
           /\ fmt = Idle

SpecCli == InitCli /\ [][MainNext]_vars

(* The configuration merge of main as a unit, over every combination of    *)
(* keys in the file and flags on the command line.                         *)

MergeFiles ==
    { MissingFile }
    \cup { ObjectFile([NoKeys EXCEPT !["model_size"] = ms, !["device"] = dv,
                                     !["compute_type"] = ct, !["language"] = lg,
                                     !["task"] = tk, !["beam_size"] = bs,
                                     !["vad_filter"] = vf, !["word_timestamps"] = wt]) :
             ms \in { None, Some("small") }, dv \in { None, Some("cuda") },
             ct \in { None, Some("float16") }, lg \in { None, Some(None), Some(Some("zh")) },
             tk \in { None, Some("translate") }, bs \in { None, Some(3) },
             vf \in { None, Some(TRUE) }, wt \in { None, Some(TRUE) } }

MergeArgs ==
    { [NoFlags EXCEPT !.model = ms, !.device = dv, !.compute_type = ct, !.language = lg,
                      !.task = tk, !.beam_size = bs, !.vad_filter = vf,
                      !.word_timestamps = wt] :
        ms \in { None, Some("tiny") }, dv \in { None, Some("cpu") },
        ct \in { None, Some("int8_float16") }, lg \in { None, Some(""), Some("en") },
        tk \in { None, Some("transcribe") }, bs \in { None, Some(0), Some(1) },
        vf \in { None, Some(TRUE) }, wt \in { None, Some(TRUE) } }

InitMerge ==
    /\ cli \in { CliStart("load_config",
                          [audio_exists |-> TRUE, file |-> f, args |-> g,
                           lib |-> [outcome |-> "ok", segments |-> << >>],
                           out_path |-> "absent"]) :
                   f \in MergeFiles, g \in MergeArgs }
    /\ env = Idle
    /\ inst = Idle
    /\ fmt = Idle

NextMerge == LoadConfig \/ Override

SpecMerge == InitMerge /\ [][NextMerge]_vars

-----------------------------------------------------------------------------
(* The environment manager: SkillEnvironment.ensure_venv and main *)

\* the setup runs a behaviour holds, each a process of its own
MaxRuns == 3

\* The virtual environment directory on disk: "absent", "partial" (the
\* directory exists and holds no pip: what venv.create leaves behind when
\* it fails after making the directory) or "complete".
VenvStates == { "absent", "partial", "complete" }

\* The skill directory is named by its own path or through a symbolic link
\* to it; both name the same directory on disk.
Spellings == { "real", "link" }

\* a process at the first line of main: proc tells whether it runs with the
\* environment's python (in_venv), by which spelling of the skill directory
\* that python was started (python_via) and by which the script was named
\* (script_via)
EnvStart(venv_dir, requirements, proc, run, prev_ret) ==
    [pc |-> "is_in_skill_venv", venv_dir |-> venv_dir, requirements |-> requirements,
     in_venv |-> proc.in_venv, python_via |-> proc.python_via,
     script_via |-> proc.script_via, run |-> run, ret |-> "none", exit_code |-> None,
     created |-> 0, pip_calls |-> << >>, failed |-> { }, stdout |-> << >>,
     traceback |-> FALSE, venv_before |-> venv_dir, prev_ret |-> prev_ret]

\* sys.prefix is the environment's directory only if the script is run with
\* the environment's python: a complete environment holds it, and so does
\* one that venv.create left without pip
MayRunInVenv(venv_dir) == IF venv_dir = "absent" THEN { FALSE } ELSE BOOLEAN

\* the processes that can run the script on a disk: python_via says nothing
\* of a process that runs another python
Processes(venv_dir) ==
    { proc \in [in_venv : MayRunInVenv(venv_dir), python_via : Spellings,
                script_via : Spellings] :
        proc.in_venv \/ proc.python_via = "real" }

\* sys.base_prefix
base_prefix == << "usr" >>

\* sys.prefix: the environment's directory as the path of its python spells
\* it, not resolved
prefix(e) == IF e.in_venv THEN << e.python_via, ".venv" >> ELSE base_prefix

\* self.venv_dir: Path(__file__).parent.parent / ".venv", not resolved
SkillVenvDir(e) == << e.script_via, ".venv" >>

\* is_in_skill_venv(): in some environment, and sys.prefix and self.venv_dir
\* are the same path as written
is_in_skill_venv(e) ==
    IF prefix(e) # base_prefix THEN prefix(e) = SkillVenvDir(e) ELSE FALSE

\* `return True` / `return False` of ensure_venv
Return(e, value, lines) ==
    [e EXCEPT !.pc = "main", !.ret = value, !.stdout = @ \o lines]

\* an exception ensure_venv does not catch: main does not catch it either
EnvUncaught(e) ==
    [e EXCEPT !.pc = "exited", !.ret = "raised", !.traceback = TRUE,
              !.exit_code = Some(UncaughtExceptionStatus)]

CheckInVenv ==
    /\ env.pc = "is_in_skill_venv"
    /\ env' = IF is_in_skill_venv(env) THEN Return(env, "true", << "already_in_venv" >>)
              ELSE [env EXCEPT !.pc = "create"]
    /\ UNCHANGED << cli, inst, fmt >>

\* `if not self.venv_dir.exists()`
NeedsCreate(e) == e.venv_dir = "absent"

\* venv.create succeeds, or raises before it made the directory, or raises
\* after it (pip could not be set up)
CreateOutcomes == { "ok", "raises_before_mkdir", "raises_after_mkdir" }

CreateVenv ==
    /\ env.pc = "create"
    /\ IF NeedsCreate(env)
       THEN \E outcome \in CreateOutcomes :
               LET called == [env EXCEPT !.created = @ + 1,
                                         !.stdout = Append(@, "creating_venv")]
               IN  env' = IF outcome = "ok"
                          THEN [called EXCEPT !.pc = "requirements", !.venv_dir = "complete",
                                              !.stdout = Append(@, "venv_created")]
                          ELSE Return([called EXCEPT
                                         !.venv_dir = IF outcome = "raises_after_mkdir"
                                                      THEN "partial" ELSE @,
                                         !.failed = @ \cup { "create" }],
                                      "false", << "create_failed" >>)
       ELSE env' = [env EXCEPT !.pc = "requirements"]
    /\ UNCHANGED << cli, inst, fmt >>

\* `if self.requirements_file.exists()`
CheckRequirements ==
    /\ env.pc = "requirements"
    /\ env' = IF env.requirements
              THEN [env EXCEPT !.pc = "upgrade_pip", !.stdout = Append(@, "installing")]
              ELSE Return(env, "true", << "no_requirements" >>)
    /\ UNCHANGED << cli, inst, fmt >>

\* subprocess.run([venv_pip, ...], check=True): FileNotFoundError when the
\* executable is not there, CalledProcessError when pip exits non-zero
PipOutcomes(e) == IF e.venv_dir = "complete" THEN { "ok", "CalledProcessError" }
                  ELSE { "FileNotFoundError" }

\* `except subprocess.CalledProcessError`
Caught(outcome) == outcome = "CalledProcessError"

RunPip(e, step, outcome, next_pc, ok_lines) ==
    LET called == [e EXCEPT !.pip_calls = Append(@, step)]
        failing == [called EXCEPT !.failed = @ \cup { step }]
    IN  IF outcome = "ok" THEN [called EXCEPT !.pc = next_pc, !.stdout = @ \o ok_lines]
        ELSE IF Caught(outcome) THEN Return(failing, "false", << "deps_failed", "deps_output" >>)
        ELSE EnvUncaught(failing)

UpgradePip ==
    /\ env.pc = "upgrade_pip"
    /\ \E outcome \in PipOutcomes(env) :
          env' = RunPip(env, "upgrade", outcome, "install_requirements", << >>)
    /\ UNCHANGED << cli, inst, fmt >>

InstallRequirements ==
    /\ env.pc = "install_requirements"
    /\ \E outcome \in PipOutcomes(env) :
          env' = LET done == RunPip(env, "install", outcome, "main", << "deps_installed" >>)
                 IN  IF outcome = "ok" THEN [done EXCEPT !.ret = "true"] ELSE done
    /\ UNCHANGED << cli, inst, fmt >>

\* main: `if env.ensure_venv(): ... else: return 1`, then sys.exit(main() or 0)
EnvMain ==
    /\ env.pc = "main"
    /\ env' = IF env.ret = "true"
              THEN [env EXCEPT !.pc = "exited", !.exit_code = Some(0),
                               !.stdout = Append(@, "environment_ready")]
              ELSE [env EXCEPT !.pc = "exited", !.exit_code = Some(1),
                               !.stdout = Append(@, "setup_failed")]
    /\ UNCHANGED << cli, inst, fmt >>

\* the script is run again, in a new process, on the disk the last run left
Rerun ==
    /\ env.pc = "exited"
    /\ env.run < MaxRuns
    /\ \E proc \in Processes(env.venv_dir) :
          env' = EnvStart(env.venv_dir, env.requirements, proc, env.run + 1, env.ret)
    /\ UNCHANGED << cli, inst, fmt >>

InitEnv ==
    /\ \E v \in { "absent", "complete" }, r \in BOOLEAN :
          \E proc \in Processes(v) : env = EnvStart(v, r, proc, 1, "none")
    /\ cli = Idle
    /\ inst = Idle
    /\ fmt = Idle

NextEnv == CheckInVenv \/ CreateVenv \/ CheckRequirements \/ UpgradePip
               \/ InstallRequirements \/ EnvMain \/ Rerun

SpecEnv == InitEnv /\ [][NextEnv]_vars

-----------------------------------------------------------------------------
(* The installer: main of install.py *)

\* files_to_copy
Items == << "SKILL.md", "README.md", "LICENSE", "requirements.txt", "skill.json", "scripts" >>

ItemNames == { Items[i] : i \in 1 .. Len(Items) }

\* the scripts made executable
Scripts == << "run.py", "setup_environment.py", "transcribe.py" >>

ScriptNames == { Scripts[i] : i \in 1 .. Len(Scripts) }

\* the listed names that may exist in the target before the run
MaxTargetEntries == 2

\* An entry of a directory: nothing, a regular file or a directory.  origin
\* tells whose content it holds (the working directory's, or what was in
\* the target before); children are the names inside a directory and exec
\* those of them with mode 755.
NoEntry == [kind |-> "none", origin |-> "none", children |-> { }, exec |-> { }]

File(origin) == [kind |-> "file", origin |-> origin, children |-> { }, exec |-> { }]

Dir(origin, children) == [kind |-> "dir", origin |-> origin, children |-> children, exec |-> { }]

\* what the working directory may hold under a listed name: the listed
\* files are files there and scripts is a directory, when they exist (a
\* regular file named scripts is drawn too)
SourceEntries(item) ==
    { NoEntry, File("cwd") }
    \cup IF item = "scripts" THEN { Dir("cwd", c) : c \in { { }, { "run.py" }, ScriptNames } }
         ELSE { }

\* what the target may hold under a listed name before the run
OldEntries(item) ==
    { NoEntry, File("old") }
    \cup IF item = "scripts" THEN { Dir("old", c) : c \in { { }, { "run.py" } } }
         ELSE { Dir("old", { }) }

Present(entries) == { n \in ItemNames : entries[n].kind # "none" }

\* the listing that holds t[i] under Items[i]
Listing(t) == [n \in ItemNames |-> t[CHOOSE i \in 1 .. Len(Items) : Items[i] = n]]

SourceListings ==
    { Listing(t) : t \in SourceEntries(Items[1]) \X SourceEntries(Items[2])
                         \X SourceEntries(Items[3]) \X SourceEntries(Items[4])
                         \X SourceEntries(Items[5]) \X SourceEntries(Items[6]) }

OldListings ==
    { e \in { Listing(t) : t \in OldEntries(Items[1]) \X OldEntries(Items[2])
                                 \X OldEntries(Items[3]) \X OldEntries(Items[4])
                                 \X OldEntries(Items[5]) \X OldEntries(Items[6]) } :
        Cardinality(Present(e)) <= MaxTargetEntries }

Nothing == [n \in ItemNames |-> NoEntry]

\* The file system of a run: the working directory "cwd" and the target
\* "target".  When the installer is run from inside the target the two
\* paths name one directory, which the model keeps under "cwd".
At(path, same) == IF same THEN "cwd" ELSE path

InstStart(same, source, target_kind, old) ==
    [pc |-> "mkdir", i |-> 1, same |-> same,
     fs |-> [cwd |-> [kind |-> "dir", entries |-> source],
             target |-> [kind |-> target_kind, entries |-> old]],
     cwd0 |-> source, stdout |-> << >>, error |-> None, exit_code |-> None]

TargetDir(s) == s.fs[At("target", s.same)]

SourceDir(s) == s.fs[At("cwd", s.same)]

\* an exception of a file operation: main catches none
Abort(s, exception) ==
    [s EXCEPT !.pc = "aborted", !.error = Some(exception),
              !.exit_code = Some(UncaughtExceptionStatus)]

SetTarget(s, item, entry) ==
    [s EXCEPT !.fs[At("target", s.same)].entries[item] = entry]

\* target_dir.mkdir(parents=True, exist_ok=True)
Mkdir ==
    /\ inst.pc = "mkdir"
    /\ inst' = IF TargetDir(inst).kind = "file" THEN Abort(inst, "FileExistsError")
               ELSE [inst EXCEPT !.pc = "copy", !.fs[At("target", inst.same)].kind = "dir"]
    /\ UNCHANGED << cli, env, fmt >>

\* `if dst.exists(): shutil.rmtree(dst)` then shutil.copytree(src, dst)
CopyDirectory(s, item) ==
    LET dst == TargetDir(s).entries[item]
        removed == IF dst.kind = "none" THEN s ELSE SetTarget(s, item, NoEntry)
        src == SourceDir(removed).entries[item]
    IN  IF dst.kind = "file" THEN Abort(s, "NotADirectoryError")
        ELSE IF src.kind = "none" THEN Abort(removed, "FileNotFoundError")
        ELSE [SetTarget(removed, item, src) EXCEPT !.stdout = Append(@, << "copied_dir", item >>)]

\* shutil.copy2(src, dst): into dst when dst is a directory
CopyFile(s, item) ==
    LET dst == TargetDir(s).entries[item]
        src == SourceDir(s).entries[item]
    IN  IF s.same THEN Abort(s, "SameFileError")
        ELSE [SetTarget(s, item,
                        IF dst.kind = "dir"
                        THEN [dst EXCEPT !.children = @ \cup { item }]
                        ELSE File(src.origin))
                EXCEPT !.stdout = Append(@, << "copied", item >>)]

\* one turn of `for item in files_to_copy`
CopyItem ==
    /\ inst.pc = "copy"
    /\ LET item == Items[inst.i]
           src == SourceDir(inst).entries[item]
           copied == IF src.kind = "dir" THEN CopyDirectory(inst, item)
                     ELSE IF src.kind = "file" THEN CopyFile(inst, item)
                     ELSE [inst EXCEPT !.stdout = Append(@, << "skipped", item >>)]
       IN  inst' = IF copied.pc = "aborted" THEN copied
                   ELSE IF inst.i = Len(Items) THEN [copied EXCEPT !.pc = "chmod"]
                   ELSE [copied EXCEPT !.i = @ + 1]
    /\ UNCHANGED << cli, env, fmt >>

\* `if scripts_dir.exists():` chmod 755 each known script that exists
MakeExecutable ==
    /\ inst.pc = "chmod"
    /\ LET dir == TargetDir(inst).entries["scripts"]
       IN  inst' = [SetTarget(inst, "scripts",
                              IF dir.kind = "dir"
                              THEN [dir EXCEPT !.exec = @ \cup (dir.children \cap ScriptNames)]
                              ELSE dir)
                      EXCEPT !.pc = "done", !.exit_code = Some(0),
                             !.stdout = Append(@, << "installation_complete", "" >>)]
    /\ UNCHANGED << cli, env, fmt >>

\* the target is a directory holding old entries, or is absent, or is the
\* working directory itself
InitInstall ==
    /\ \E src \in SourceListings :
          \/ \E old \in OldListings : inst = InstStart(FALSE, src, "dir", old)
          \/ inst = InstStart(FALSE, src, "absent", Nothing)
          \/ inst = InstStart(TRUE, src, "dir", Nothing)
    /\ cli = Idle
    /\ env = Idle
    /\ fmt = Idle

NextInstall == Mkdir \/ CopyItem \/ MakeExecutable

SpecInstall == InitInstall /\ [][NextInstall]_vars

-----------------------------------------------------------------------------
(* The claims *)

\* the fields the merge is claimed for, with the flag that sets each
MergedFields ==
    { << "model_size", "model" >>, << "device", "device" >>,
      << "compute_type", "compute_type" >>, << "task", "task" >>,
      << "beam_size", "beam_size" >>, << "vad_filter", "vad_filter" >>,
      << "word_timestamps", "word_timestamps" >> }

\* flag, else the file's key, else the default
Precedence(flag, key, default) ==
    IF ~IsNone(flag) THEN flag[1] ELSE IF ~IsNone(key) THEN key[1] ELSE default

\* C1: a run with an audio file and a readable configuration merges, and
\* from then on every field of the configuration is the flag's value when
\* the flag was given, otherwise the file's value when the file has the key,
\* otherwise the hardcoded default (so a flag changes its own field only).
C1_ThreeTierPrecedence ==
    (cli.pc \in { "transcribe", "format", "output", "exited" } /\ cli.audio_exists
         /\ cli.file.state # "malformed") =>
        /\ ~IsNone(cli.config)
        /\ \A p \in MergedFields :
              cli.config[1][p[1]] = Precedence(cli.args[p[2]], cli.file.data[p[1]],
                                               DefaultConfig[p[1]])
        /\ cli.config[1].language =
              IF ~IsNone(cli.args.language) THEN cli.args.language
              ELSE IF ~IsNone(cli.file.data["language"]) THEN cli.file.data["language"][1]
              ELSE None

\* the run's failure, read from its inputs: no audio file, or a library
\* that raises when transcribe() is called
AudioFileMissing == ~cli.audio_exists

TranscriptionRaises == cli.lib.outcome \in { "load_raises", "transcribe_raises" }

ResultPrinted == \E i \in 1 .. Len(cli.stdout) : cli.stdout[i].kind = "output"

\* C2: a run whose audio file is missing or whose transcription raises
\* exits with status 1 and puts out nothing: save_output is not called, the
\* output file is neither created nor written, no formatted result is
\* printed; with the audio file missing, the model is not loaded and the
\* library is not called.
C2_FailureExitsOneWithoutOutput ==
    (AudioFileMissing \/ TranscriptionRaises) =>
        /\ cli.pc = "exited" => cli.exit_code = Some(1)
        /\ cli.save_calls = 0
        /\ cli.out_file = [kind |-> cli.out_path, content |-> None]
        /\ ~ResultPrinted
        /\ IsNone(cli.output)
        /\ AudioFileMissing => ~cli.model_loaded /\ IsNone(cli.lib_call)

\* a run given --output whose library raised in the transcription call, after
\* the model was loaded, has exited
C2_Witness ==
    /\ cli.pc = "exited"
    /\ cli.audio_exists
    /\ cli.lib.outcome = "transcribe_raises"
    /\ cli.model_loaded
    /\ cli.args.output = Some("out.txt")
    /\ cli.exit_code = Some(1)

\* C3: a run whose audio file exists and whose transcription does not raise
\* exits with status 0, whatever --format and --output; status 1 is the exit
\* of a missing audio file or a transcription exception only.
C3_ExitStatus ==
    cli.pc = "exited" =>
        /\ (cli.audio_exists /\ ~TranscriptionRaises) => cli.exit_code = Some(0)
        /\ cli.exit_code = Some(1) => (AudioFileMissing \/ TranscriptionRaises)

Reported(lines, line) == \E i \in 1 .. Len(lines) : lines[i] = line

NoRepeat(q) == \A i, j \in 1 .. Len(q) : q[i] = q[j] => i = j

\* C4: in every setup run a failed creation or a failed pip step is
\* reported, makes ensure_venv return False and the process exit non-zero;
\* pip is not run after a failed creation and no step runs twice.
C4_FailureReturnsFalse ==
    /\ (env.pc = "exited" /\ env.failed # { }) =>
          /\ env.ret = "false"
          /\ env.exit_code = Some(1)
          /\ Reported(env.stdout, "setup_failed")
          /\ "create" \in env.failed => Reported(env.stdout, "create_failed")
          /\ env.failed \cap { "upgrade", "install" } # { } => Reported(env.stdout, "deps_failed")
    /\ "create" \in env.failed => env.pip_calls = << >>
    /\ env.created <= 1
    /\ NoRepeat(env.pip_calls)

\* what every run of ensure_venv does, whatever ran before it: inside the
\* skill's environment it returns True and neither creates nor installs;
\* outside, it creates only an environment that is missing, leaves an
\* existing one as it is, and returns True only after both pip steps when
\* there is a requirements file
EnsureVenvSteps ==
    /\ (env.in_venv /\ env.pc \in { "main", "exited" }) =>
          env.ret = "true" /\ env.created = 0 /\ env.pip_calls = << >>
    /\ env.created > 0 => env.venv_before = "absent"
    /\ env.venv_before # "absent" => env.venv_dir = env.venv_before
    /\ (env.ret = "true" /\ ~env.in_venv /\ env.requirements) =>
          env.pip_calls = << "upgrade", "install" >>

AfterSuccess == env.pc = "exited" /\ env.run > 1 /\ env.prev_ret = "true"

\* C5: ensure_venv behaves as EnsureVenvSteps says, and a run that follows a
\* successful run succeeds again on the same environment.
C5_RerunSucceeds ==
    /\ EnsureVenvSteps
    /\ AfterSuccess => env.ret = "true" /\ env.venv_dir = env.venv_before

\* the copy of a source entry as the target holds it after a complete run
Installed(item, src, dst) ==
    /\ dst.kind = src.kind
    /\ dst.origin = "cwd"
    /\ dst.children = src.children
    /\ dst.exec = IF item = "scripts" /\ src.kind = "dir"
                  THEN src.exec \cup (src.children \cap ScriptNames) ELSE src.exec

\* C6: from any working directory and target the installer runs to
\* completion, and then the target is a directory that holds, under each
\* listed name the working directory had, that entry's copy in place of
\* what was there, the known scripts in it executable.
C6_InstallsEveryPresentItem ==
    /\ inst.pc # "aborted"
    /\ inst.pc = "done" =>
          /\ TargetDir(inst).kind = "dir"
          /\ \A n \in ItemNames :
                inst.cwd0[n].kind # "none" =>
                    Installed(n, inst.cwd0[n], TargetDir(inst).entries[n])

\* C7: a segment of json_full output has the key words only if word
\* timestamps were asked for and the library gave that segment a non-empty
\* word list; a segment of json output never has the key.
C7_WordsOnlyWhenRequested ==
    (fmt.pc = "formatted" /\ fmt.format \in { Some("json"), Some("json_full") }) =>
        \A i \in 1 .. Len(fmt.out[1].segments) :
            "words" \in DOMAIN fmt.out[1].segments[i] =>
                /\ fmt.format = Some("json_full")
                /\ fmt.word_timestamps
                /\ LET w == fmt.segments[i].words
                   IN  ~IsNone(w) /\ ~IsNone(w[1]) /\ Len(w[1][1]) > 0
                /\ Len(fmt.out[1].segments[i]["words"]) = Len(fmt.segments[i].words[1][1])

\* json_full output in which one segment has words and another has none
C7_Witness ==
    /\ fmt.pc = "formatted"
    /\ fmt.format = Some("json_full")
    /\ \E i, j \in 1 .. Len(fmt.out[1].segments) :
          /\ "words" \in DOMAIN fmt.out[1].segments[i]
          /\ "words" \notin DOMAIN fmt.out[1].segments[j]

\* text.split("\n")
RECURSIVE SplitLines(_)
SplitLines(s) ==
    IF \A i \in 1 .. Len(s) : s[i] # NL THEN << s >>
    ELSE LET k == CHOOSE i \in 1 .. Len(s) : s[i] = NL /\ \A j \in 1 .. i - 1 : s[j] # NL
         IN  << SubSeq(s, 1, k - 1) >> \o SplitLines(SubSeq(s, k + 1, Len(s)))

IsNumber(s) == Len(s) > 0 /\ \A i \in 1 .. Len(s) : \E d \in 1 .. 10 : Digits[d] = s[i]

RECURSIVE NumberOf(_)
NumberOf(s) ==
    IF Len(s) = 0 THEN 0
    ELSE 10 * NumberOf(SubSeq(s, 1, Len(s) - 1))
             + (CHOOSE d \in 0 .. 9 : Digits[d + 1] = s[Len(s)])

\* C8: SRT output of n segments is n cues in the segments' order, cue k made
\* of the line k, the line `start --> end`, the text and one empty line; no
\* segments give empty output.
C8_SrtCuesNumberedFromOne ==
    (fmt.pc = "formatted" /\ fmt.format = Some("srt")) =>
        LET segs == fmt.result[1].segments
            lines == SplitLines(fmt.out[1])
        IN  IF Len(segs) = 0 THEN fmt.out[1] = << >>
            ELSE /\ Len(lines) = 4 * Len(segs)
                 /\ \A k \in 1 .. Len(segs) :
                       /\ IsNumber(lines[4 * k - 3])
                       /\ NumberOf(lines[4 * k - 3]) = k
                       /\ lines[4 * k - 2] = format_timestamp_srt(segs[k].start) \o Chars_Arrow
                                                 \o format_timestamp_srt(segs[k].end)
                       /\ lines[4 * k - 1] = segs[k].text
                       /\ lines[4 * k] = << >>

\* SRT output of as many segments as the model draws, texts differing
C8_Witness ==
    /\ fmt.pc = "formatted"
    /\ fmt.format = Some("srt")
    /\ Len(fmt.result[1].segments) = MaxSegments
    /\ fmt.result[1].segments[1].text # fmt.result[1].segments[2].text

\* the fields of HH:MM:SS?mmm
Field(s, from, to) == NumberOf(SubSeq(s, from, to))

\* C9: the two timestamps of a duration have the shapes HH:MM:SS.mmm and
\* HH:MM:SS,mmm, the same digits around the separator, minutes and seconds
\* at most 59, and read back as the duration cut to the millisecond.
C9_SameEncoding ==
    (~IsNone(fmt.text) /\ ~IsNone(fmt.srt)) =>
        LET a == fmt.text[1]
            b == fmt.srt[1]
        IN  /\ Len(a) = 12 /\ Len(b) = 12
            /\ a[9] = "." /\ b[9] = ","
            /\ \A i \in (1 .. 12) \ { 9 } : a[i] = b[i]
            /\ \A i \in { 3, 6 } : a[i] = ":"
            /\ \A i \in (1 .. 12) \ { 3, 6, 9 } : IsNumber(<< a[i] >>)
            /\ Field(a, 4, 5) <= 59 /\ Field(a, 7, 8) <= 59
            /\ ((Field(a, 1, 2) * 60 + Field(a, 4, 5)) * 60 + Field(a, 7, 8)) * 1000
                   + Field(a, 10, 12)
                 = (fmt.seconds * 1000) \div TicksPerSecond

\* C10: whatever the run does, every listed entry the working directory had
\* before the run is still there, unchanged.
C10_SourceUntouched ==
    \A n \in ItemNames :
        inst.cwd0[n].kind # "none" => SourceDir(inst).entries[n] = inst.cwd0[n]

====
